---- MODULE Spec2Model ----
(***************************************************************************)
(* ERLwF (models/er_lwf.py): experience replay combined with a            *)
(* learning-without-forgetting distillation penalty.                      *)
(*                                                                         *)
(* The model follows ERLwF.observe statement by statement (one step per   *)
(* statement group, sequenced by pc: the program is single-threaded, so   *)
(* only the step pc names is ever enabled while a call is running) and    *)
(* ERLwF.begin_task as one step.  models/temp.py holds a second copy of   *)
(* observe, statement for statement the same; the two observe2 methods    *)
(* are never called and are not modelled.                                 *)
(*                                                                         *)
(* Collaborators.  The Buffer class (utils/buffer.py) is modelled from    *)
(* its contract: add_data stores by reservoir sampling, get_data draws    *)
(* min(size, stored) distinct entries.  The training loop passes batches  *)
(* whose inputs, labels and not_aug_inputs have the same number of rows.  *)
(* The optimizer step may move the student's parameters by any of         *)
(* StepDeltas.                                                            *)
(*                                                                         *)
(* Numbers.  Parameters, alpha and gamma are exact rationals <<n, d>>.    *)
(* The numeric kernels of the tensor library (backbone forward, the task  *)
(* loss, log_softmax, exp, kl_div, autograd) are uninterpreted: their     *)
(* results are terms recording the operation and its operands, so two     *)
(* results are equal exactly when the same kernel was applied to the same *)
(* operands.  A scalar loss is a linear form over such terms, a sequence  *)
(* of <<coefficient, term>> with the zero-coefficient entries dropped     *)
(* (finite arithmetic: 0 * x = 0, y + 0 = y).                             *)
(***************************************************************************)
EXTENDS Integers, Sequences, FiniteSets, TLC

\* ------------------------------------------------------------------ bounds
\* observe calls per run
MaxCalls == 3
\* begin_task calls per run
MaxTasks == 2

\* ------------------------------------------------------- exact rationals
Abs(n) == IF n < 0 THEN -n ELSE n

RECURSIVE GCD(_, _)
GCD(a, b) == IF b = 0 THEN a ELSE GCD(b, a % b)

\* n/d in lowest terms, d > 0
Rat(n, d) ==
    LET g == GCD(Abs(n), d)
    IN  IF n = 0 THEN <<0, 1>> ELSE <<n \div g, d \div g>>

RInt(n) == <<n, 1>>
RAdd(a, b) == Rat(a[1] * b[2] + b[1] * a[2], a[2] * b[2])
RSub(a, b) == Rat(a[1] * b[2] - b[1] * a[2], a[2] * b[2])
RMul(a, b) == Rat(a[1] * b[1], a[2] * b[2])
RDivInt(a, k) == Rat(a[1], a[2] * k)
RLe(a, b) == a[1] * b[2] <= b[1] * a[2]
RLt(a, b) == a[1] * b[2] < b[1] * a[2]
RZero == RInt(0)
ROne == RInt(1)

\* ---------------------------------------------------- scalar linear forms
LinTerm(t) == << <<ROne, t>> >>

LinScale(c, l) ==
    IF c = RZero THEN <<>>
    ELSE [i \in 1..Len(l) |-> <<RMul(c, l[i][1]), l[i][2]>>]

LinAdd(a, b) == a \o b

\* ------------------------------------------------------------ the program
VARIABLES
    args,               \* self.args: alpha, softmax_temp, ema, minibatch_size, buffer_size
    gamma,              \* self.gamma
    mem,                \* parameter storage: module object -> its parameter values
    requires_grad,      \* module object -> requires_grad of its parameters
    old_net,            \* self.old_net: the object it refers to, or "None" (attribute not set)
    grad,               \* .grad of the student's parameters: the backward contributions accumulated
    buffer,             \* self.buffer: the stored <<example, label>> entries
    num_seen_examples,  \* self.buffer.num_seen_examples
    pc,                 \* position inside observe, "idle" between calls
    fr,                 \* observe's locals (kept, as history, after a return)
    ret,                \* outcome of the last finished observe call
    callNo,             \* observe calls started
    taskNo,             \* begin_task calls made
    log,                \* history: the collaborator calls of the running (or last) observe call
    call,               \* history: the arguments of the running (or last) observe call
    pre,                \* history: parameters, teacher and buffer when that call started
    task_net,           \* history: the student's parameters at the most recent begin_task
    get_calls,          \* history: the size argument of each get_data call of the running call
    add_calls           \* history: the arguments of each add_data call of the running call

vars == <<args, gamma, mem, requires_grad, old_net, grad, buffer, num_seen_examples,
          pc, fr, ret, callNo, taskNo, log, call, pre, task_net, get_calls, add_calls>>

\* self.net: the student module object, fixed at construction
net == "student"

\* The command lines explored: the defaults of get_parser (alpha 0.5, softmax_temp 2,
\* ema 0.0) and settings with the penalty off, and with an EMA teacher of momentum
\* 1/2, 1 and 3/2.
ArgsSet ==
    { [alpha |-> Rat(1, 2), softmax_temp |-> 2, ema |-> RZero,
       minibatch_size |-> 1, buffer_size |-> 2],
      [alpha |-> RZero, softmax_temp |-> 1, ema |-> Rat(1, 2),
       minibatch_size |-> 2, buffer_size |-> 2],
      [alpha |-> ROne, softmax_temp |-> 2, ema |-> ROne,
       minibatch_size |-> 2, buffer_size |-> 1],
      [alpha |-> Rat(1, 2), softmax_temp |-> 1, ema |-> Rat(3, 2),
       minibatch_size |-> 1, buffer_size |-> 2] }

\* The backbone's initial parameters, position by position.
InitParams == <<RInt(1), RInt(-2)>>

\* What one optimizer step may add to the student's parameters.
StepDeltas == { <<RInt(1), RZero>>, <<RInt(-1), RInt(2)>> }

Classes == {0, 1}

\* The numbers of rows of the batches the training loop passes to observe.
BatchSizes == {1, 2}

\* ------------------------------------------------------------- the batch
\* A row of an image tensor: the example it shows and how many times the
\* augmentation pipeline has been applied to it (0: not augmented).
\* The i-th example of the batch the training loop passes to the c-th call.
Example(c, i) == [x |-> <<c, i>>, aug |-> 0]
LabelOf(c, i) == (c + i) % Cardinality(Classes)

\* The augmentation pipeline (self.transform) applied to one row.
transform(e) == [e EXCEPT !.aug = @ + 1]

\* The training loop's batch: the augmented inputs, the labels, and the same
\* examples not augmented.
Batch(c, n) ==
    [inputs         |-> [i \in 1..n |-> transform(Example(c, i))],
     labels         |-> [i \in 1..n |-> LabelOf(c, i)],
     not_aug_inputs |-> [i \in 1..n |-> Example(c, i)]]

\* torch.cat along dimension 0
cat(a, b) == a \o b

\* -------------------------------------------------------- numeric kernels
\* module(rows): the forward pass of a module with parameters p on a batch.
Forward(p, rows) == [op |-> "forward", params |-> p, rows |-> rows]
Rows(t) == Len(t.rows)

\* self.loss(outputs, labels)
TaskLoss(outputs, labels) == [op |-> "loss", outputs |-> outputs, labels |-> labels]

TDiv(t, c) == [op |-> "div", of |-> t, by |-> c]
log_softmax(t) == [op |-> "log_softmax", of |-> t]
exp(t) == [op |-> "exp", of |-> t]
kl_div(input, target) ==
    [op |-> "kl_div", input |-> input, target |-> target, reduction |-> "batchmean"]

kl_divergence_stable(logits_student, logits_teacher, temperature) ==
    LET scaled_logits_student == TDiv(logits_student, temperature)
        scaled_logits_teacher == TDiv(logits_teacher, temperature)
        log_p_student == log_softmax(scaled_logits_student)
        log_p_teacher == log_softmax(scaled_logits_teacher)
    IN  kl_div(log_p_student, exp(log_p_teacher))

\* loss.backward(): the gradient of a scalar with respect to the student's parameters
Autograd(loss) == [op |-> "grad", of |-> loss]

\* ------------------------------------------------------ the replay buffer
is_empty(buf) == Len(buf) = 0

\* The index sequences get_data(size) may draw: min(size, stored) distinct entries.
GetDataChoices(buf, size) ==
    LET k == IF size < Len(buf) THEN size ELSE Len(buf)
    IN  { s \in [1..k -> 1..Len(buf)] :
            \A i, j \in 1..k : i # j => s[i] # s[j] }

\* get_data(size, transform, return_not_aug=True) for the drawn indices:
\* the examples as stored (not_aug_transform is None), the examples put through
\* transform, the labels.
get_data(buf, idx) ==
    <<[i \in 1..Len(idx) |-> buf[idx[i]].example],
      [i \in 1..Len(idx) |-> transform(buf[idx[i]].example)],
      [i \in 1..Len(idx) |-> buf[idx[i]].label]>>

\* Reservoir sampling: the slot the next example may take (0: it is dropped).
ReservoirSlots(seen, cap) ==
    IF seen < cap THEN {seen + 1} ELSE 0..cap

Store(buf, slot, e) ==
    IF slot = 0 THEN buf
    ELSE IF slot = Len(buf) + 1 THEN Append(buf, e)
    ELSE [buf EXCEPT ![slot] = e]

RECURSIVE add_data(_, _, _, _)
\* add_data(examples, labels), the i-th example taking slot slots[i]
add_data(buf, examples, labels, slots) ==
    IF examples = <<>> THEN buf
    ELSE add_data(Store(buf, Head(slots), [example |-> Head(examples), label |-> Head(labels)]),
                  Tail(examples), Tail(labels), Tail(slots))

AddDataChoices(seen, cap, n) ==
    { s \in [1..n -> 0..cap] : \A i \in 1..n : s[i] \in ReservoirSlots(seen + i - 1, cap) }

\* ------------------------------------------------------------ ERLwF steps
NoFrame ==
    [inputs |-> <<>>, labels |-> <<>>, not_aug_inputs |-> <<>>, real_batch_size |-> 0,
     temp |-> <<>>, buf |-> <<>>, outputs |-> <<>>, loss |-> <<>>, logits |-> <<>>]

\* ERLwF.__init__
Init ==
    /\ args \in ArgsSet
    /\ gamma = args.ema
    /\ mem = [o \in {"student", "teacher"} |-> IF o = net THEN InitParams ELSE <<>>]
    /\ requires_grad = [o \in {"student", "teacher"} |-> TRUE]
    /\ old_net = "None"
    /\ grad = <<>>
    /\ buffer = <<>>
    /\ num_seen_examples = 0
    /\ pc = "idle"
    /\ fr = NoFrame
    /\ ret = [kind |-> "none", loss |-> <<>>]
    /\ callNo = 0
    /\ taskNo = 0
    /\ log = <<>>
    /\ call = Batch(0, 0)
    /\ pre = [mem |-> mem, old_net |-> old_net, buffer |-> buffer]
    /\ task_net = <<>>
    /\ get_calls = <<>>
    /\ add_calls = <<>>

\* (variant: the module object itself is handed back, no copy is made)
deepcopy_alias(o) == o

\* deepcopy(module): a new module object holding a copy of the parameters
deepcopy(o) == "teacher"

\* ERLwF.begin_task
begin_task ==
    /\ pc = "idle"
    /\ taskNo < MaxTasks
    /\ LET c == deepcopy(net)
       IN  /\ old_net' = c
           /\ mem' = [mem EXCEPT ![c] = mem[net]]
           /\ requires_grad' = [requires_grad EXCEPT ![c] = FALSE]
    /\ task_net' = mem[net]
    /\ taskNo' = taskNo + 1
    /\ UNCHANGED <<args, gamma, grad, buffer, num_seen_examples, pc, fr, ret, callNo,
                   log, call, pre, get_calls, add_calls>>

\* (variant: the two weights exchanged)
_update_teacher_swapped(p_s, p_t) ==
    [i \in 1..(IF Len(p_s) < Len(p_t) THEN Len(p_s) ELSE Len(p_t)) |->
        RAdd(RMul(RSub(ROne, gamma), p_t[i]), RMul(gamma, p_s[i]))]

\* ERLwF._update_teacher: the teacher's parameters after the update, given the
\* student's (p_s) and the teacher's (p_t), zipped position by position
_update_teacher(p_s, p_t) ==
    [i \in 1..(IF Len(p_s) < Len(p_t) THEN Len(p_s) ELSE Len(p_t)) |->
        RAdd(RMul(gamma, p_t[i]), RMul(RSub(ROne, gamma), p_s[i]))]

\* (variant: the current batch is stored before the buffer is sampled)
ObserveOrder_AddFirst ==
    <<"zero_grad", "add_data", "get_data", "net_forward", "old_net_forward", "distill",
      "backward", "opt_step", "update_teacher", "return">>

\* (variant: the gradients are cleared after backward instead of before)
ObserveOrder_ZeroGradLate ==
    <<"get_data", "net_forward", "old_net_forward", "distill",
      "backward", "zero_grad", "opt_step", "add_data", "update_teacher", "return">>

\* (variant: the teacher is run, and the penalty added, after the step and add_data)
ObserveOrder_TeacherLate ==
    <<"zero_grad", "get_data", "net_forward", "backward", "opt_step", "add_data",
      "old_net_forward", "distill", "update_teacher", "return">>

\* The statements of ERLwF.observe after its first two assignments, in program order.
ObserveOrder ==
    <<"zero_grad", "get_data", "net_forward", "old_net_forward", "distill",
      "backward", "opt_step", "add_data", "update_teacher", "return">>

After(p) ==
    LET i == CHOOSE k \in 1..Len(ObserveOrder) : ObserveOrder[k] = p
    IN  IF i = Len(ObserveOrder) THEN "idle" ELSE ObserveOrder[i + 1]

\* An exception leaves observe: the locals are gone, nothing after the raise runs.
Raise(kind) ==
    /\ pc' = "idle"
    /\ fr' = NoFrame
    /\ ret' = [kind |-> kind, loss |-> <<>>]

\* observe(inputs, labels, not_aug_inputs): real_batch_size = inputs.shape[0];
\* temp = not_aug_inputs
observe ==
    /\ pc = "idle"
    /\ callNo < MaxCalls
    /\ \E n \in BatchSizes :
         LET b == Batch(callNo + 1, n)
         IN  /\ call' = b
             /\ fr' = [NoFrame EXCEPT !.inputs = b.inputs, !.labels = b.labels,
                                      !.not_aug_inputs = b.not_aug_inputs,
                                      !.real_batch_size = Len(b.inputs),
                                      !.temp = b.not_aug_inputs]
    /\ callNo' = callNo + 1
    /\ pc' = Head(ObserveOrder)
    /\ ret' = [kind |-> "none", loss |-> <<>>]
    /\ log' = <<>>
    /\ get_calls' = <<>>
    /\ add_calls' = <<>>
    /\ pre' = [mem |-> mem, old_net |-> old_net, buffer |-> buffer]
    /\ UNCHANGED <<args, gamma, mem, requires_grad, old_net, grad, buffer,
                   num_seen_examples, taskNo, task_net>>

\* self.opt.zero_grad()
zero_grad ==
    /\ pc = "zero_grad"
    /\ grad' = <<>>
    /\ log' = Append(log, "zero_grad")
    /\ pc' = After(pc)
    /\ UNCHANGED <<args, gamma, mem, requires_grad, old_net, buffer, num_seen_examples,
                   fr, ret, callNo, taskNo, call, pre, task_net, get_calls, add_calls>>

\* (variant: the buffer's capacity is asked for)
ReplaySize_BufferSize == args.buffer_size

\* (variant: the teacher gets the augmented views of the replayed samples too)
TeacherInputs_Aug(not_aug_inputs, buf_inputs, buf_inputs_) == cat(not_aug_inputs, buf_inputs_)

\* if not self.buffer.is_empty()
ReplayGuard == ~is_empty(buffer)
\* the size asked of get_data
ReplaySize == args.minibatch_size
\* inputs = torch.cat((inputs, buf_inputs_))
StudentInputs(inputs, buf_inputs, buf_inputs_) == cat(inputs, buf_inputs_)
\* temp = torch.cat((not_aug_inputs, buf_inputs))
TeacherInputs(not_aug_inputs, buf_inputs, buf_inputs_) == cat(not_aug_inputs, buf_inputs)
\* labels = torch.cat((labels, buf_labels))
ExtendedLabels(labels, buf_labels) == cat(labels, buf_labels)

\* if not self.buffer.is_empty(): buf_inputs, buf_inputs_, buf_labels = get_data(...); ...
replay ==
    /\ pc = "get_data"
    /\ IF ReplayGuard
       THEN \E idx \in GetDataChoices(buffer, ReplaySize) :
              LET r == get_data(buffer, idx)
                  buf_inputs == r[1]
                  buf_inputs_ == r[2]
                  buf_labels == r[3]
              IN  /\ fr' = [fr EXCEPT
                              !.inputs = StudentInputs(fr.inputs, buf_inputs, buf_inputs_),
                              !.temp = TeacherInputs(fr.not_aug_inputs, buf_inputs, buf_inputs_),
                              !.labels = ExtendedLabels(fr.labels, buf_labels),
                              !.buf = [i \in 1..Len(idx) |-> buffer[idx[i]]]]
                  /\ log' = Append(log, "get_data")
                  /\ get_calls' = Append(get_calls, ReplaySize)
       ELSE UNCHANGED <<fr, log, get_calls>>
    /\ pc' = After(pc)
    /\ UNCHANGED <<args, gamma, mem, requires_grad, old_net, grad, buffer,
                   num_seen_examples, ret, callNo, taskNo, call, pre, task_net, add_calls>>

\* outputs = self.net(inputs); loss = self.loss(outputs, labels)
\* (the loss raises when outputs and labels differ in their number of rows)
net_forward ==
    /\ pc = "net_forward"
    /\ LET outputs == Forward(mem[net], fr.inputs)
       IN  IF Rows(outputs) = Len(fr.labels)
           THEN /\ fr' = [fr EXCEPT !.outputs = outputs,
                                    !.loss = LinTerm(TaskLoss(outputs, fr.labels))]
                /\ pc' = After(pc)
                /\ ret' = ret
           ELSE Raise("RuntimeError")
    /\ log' = Append(log, "net_forward")
    /\ UNCHANGED <<args, gamma, mem, requires_grad, old_net, grad, buffer,
                   num_seen_examples, callNo, taskNo, call, pre, task_net,
                   get_calls, add_calls>>

\* logits = self.old_net(temp)
\* (self.old_net raises AttributeError while begin_task has not set it)
old_net_forward ==
    /\ pc = "old_net_forward"
    /\ IF old_net = "None"
       THEN /\ Raise("AttributeError")
            /\ log' = log
       ELSE /\ fr' = [fr EXCEPT !.logits = Forward(mem[old_net], fr.temp)]
            /\ pc' = After(pc)
            /\ ret' = ret
            /\ log' = Append(log, "old_net_forward")
    /\ UNCHANGED <<args, gamma, mem, requires_grad, old_net, grad, buffer,
                   num_seen_examples, callNo, taskNo, call, pre, task_net,
                   get_calls, add_calls>>

\* (variant: the divisor of observe2)
PenaltyWeight_Third == RDivInt(args.alpha, 3)

\* self.args.alpha / 4
PenaltyWeight == RDivInt(args.alpha, 4)

\* loss += self.args.alpha / 4 * kl_divergence_stable(outputs, logits, self.args.softmax_temp)
distill ==
    /\ pc = "distill"
    /\ fr' = [fr EXCEPT !.loss =
                LinAdd(fr.loss,
                       LinScale(PenaltyWeight,
                                LinTerm(kl_divergence_stable(fr.outputs, fr.logits,
                                                             args.softmax_temp))))]
    /\ pc' = After(pc)
    /\ UNCHANGED <<args, gamma, mem, requires_grad, old_net, grad, buffer,
                   num_seen_examples, ret, callNo, taskNo, log, call, pre, task_net,
                   get_calls, add_calls>>

\* loss.backward(): the gradient of loss is added to the student's .grad
backward ==
    /\ pc = "backward"
    /\ grad' = Append(grad, Autograd(fr.loss))
    /\ log' = Append(log, "backward")
    /\ pc' = After(pc)
    /\ UNCHANGED <<args, gamma, mem, requires_grad, old_net, buffer, num_seen_examples,
                   fr, ret, callNo, taskNo, call, pre, task_net, get_calls, add_calls>>

\* self.opt.step(): the optimizer rewrites the parameters of self.net in place
opt_step ==
    /\ pc = "opt_step"
    /\ \E d \in StepDeltas :
         mem' = [mem EXCEPT ![net] = [i \in 1..Len(@) |-> RAdd(@[i], d[i])]]
    /\ log' = Append(log, "opt_step")
    /\ pc' = After(pc)
    /\ UNCHANGED <<args, gamma, requires_grad, old_net, grad, buffer, num_seen_examples,
                   fr, ret, callNo, taskNo, call, pre, task_net, get_calls, add_calls>>

\* (variant: the labels are not cut back to the current batch, and the augmented
\* inputs are stored)
AddDataArgs_Extended ==
    [examples |-> fr.inputs,
     labels   |-> fr.labels]

\* the arguments of self.buffer.add_data(examples=not_aug_inputs, labels=labels[:real_batch_size])
AddDataArgs ==
    [examples |-> fr.not_aug_inputs,
     labels   |-> SubSeq(fr.labels, 1, fr.real_batch_size)]

\* self.buffer.add_data(...)
buffer_add_data ==
    /\ pc = "add_data"
    /\ LET a == AddDataArgs
       IN  /\ \E slots \in AddDataChoices(num_seen_examples, args.buffer_size, Len(a.examples)) :
                buffer' = add_data(buffer, a.examples, a.labels, slots)
           /\ num_seen_examples' = num_seen_examples + Len(a.examples)
           /\ add_calls' = Append(add_calls, a)
    /\ log' = Append(log, "add_data")
    /\ pc' = After(pc)
    /\ UNCHANGED <<args, gamma, mem, requires_grad, old_net, grad, fr, ret, callNo,
                   taskNo, call, pre, task_net, get_calls>>

\* (variant: >= in place of >)
TeacherUpdateGuard_Ge == RLe(RZero, gamma)

\* if self.gamma > 0.0
TeacherUpdateGuard == RLt(RZero, gamma)

\* if self.gamma > 0.0: self._update_teacher()
update_teacher ==
    /\ pc = "update_teacher"
    /\ IF TeacherUpdateGuard
       THEN /\ mem' = [mem EXCEPT ![old_net] = _update_teacher(mem[net], mem[old_net])]
            /\ log' = Append(log, "update_teacher")
       ELSE UNCHANGED <<mem, log>>
    /\ pc' = After(pc)
    /\ UNCHANGED <<args, gamma, requires_grad, old_net, grad, buffer, num_seen_examples,
                   fr, ret, callNo, taskNo, call, pre, task_net, get_calls, add_calls>>

\* return loss.item()
return ==
    /\ pc = "return"
    /\ ret' = [kind |-> "loss", loss |-> fr.loss]
    /\ pc' = After(pc)
    /\ UNCHANGED <<fr, args, gamma, mem, requires_grad, old_net, grad, buffer,
                   num_seen_examples, callNo, taskNo, log, call, pre, task_net,
                   get_calls, add_calls>>

Next ==
    \/ begin_task
    \/ observe
    \/ zero_grad
    \/ replay
    \/ net_forward
    \/ old_net_forward
    \/ distill
    \/ backward
    \/ opt_step
    \/ buffer_add_data
    \/ update_teacher
    \/ return

Spec == Init /\ [][Next]_vars

\* ------------------------------------------------------------ properties
Count(seq, x) == Cardinality({i \in 1..Len(seq) : seq[i] = x})
Pos(seq, x) == CHOOSE i \in 1..Len(seq) : seq[i] = x
IsPrefix(a, b) == Len(a) <= Len(b) /\ SubSeq(b, 1, Len(a)) = a
Min(a, b) == IF a < b THEN a ELSE b

\* an observe call is between its first statement and its return
Running == pc # "idle"
\* the call has got past `if not self.buffer.is_empty(): ...`
PastReplay == Running /\ pc \notin {"zero_grad", "get_data"}
\* the student's forward pass is done
PastNetForward == PastReplay /\ pc # "net_forward"
\* the teacher's forward pass is done
PastOldNetForward == PastNetForward /\ pc # "old_net_forward"
\* the call returned a loss and no other call has started since
Returned == pc = "idle" /\ ret.kind = "loss"

\* the views of the drawn buffer entries, as get_data hands them out
BufStored == [i \in 1..Len(fr.buf) |-> fr.buf[i].example]
BufTransformed == [i \in 1..Len(fr.buf) |-> transform(fr.buf[i].example)]
BufLabels == [i \in 1..Len(fr.buf) |-> fr.buf[i].label]

\* C1: observe consults the buffer only when it is not empty.  Buffer empty at the
\* call: get_data is never called and student and teacher run on the current batch
\* alone.  Buffer not empty: get_data is called exactly once, for
\* args.minibatch_size samples, and the returned samples and labels are appended to
\* the current batch before the forward pass.
C1_ReplayOnlyWhenNonEmpty ==
    (PastReplay \/ Returned) =>
        IF is_empty(pre.buffer)
        THEN /\ get_calls = <<>>
             /\ Count(log, "get_data") = 0
             /\ fr.inputs = call.inputs
             /\ fr.labels = call.labels
             /\ fr.temp = call.not_aug_inputs
             /\ (PastNetForward \/ Returned) =>
                    fr.outputs = Forward(pre.mem[net], call.inputs)
             /\ (PastOldNetForward \/ Returned) =>
                    fr.logits = Forward(pre.mem[pre.old_net], call.not_aug_inputs)
        ELSE /\ get_calls = <<args.minibatch_size>>
             /\ Count(log, "get_data") = 1
             /\ Len(fr.buf) = Min(args.minibatch_size, Len(pre.buffer))
             /\ \A i \in 1..Len(fr.buf) : \E j \in 1..Len(pre.buffer) : fr.buf[i] = pre.buffer[j]
             /\ fr.inputs = call.inputs \o BufTransformed
             /\ fr.labels = call.labels \o BufLabels
             /\ (PastNetForward \/ Returned) =>
                    /\ fr.outputs = Forward(pre.mem[net], call.inputs \o BufTransformed)
                    /\ Pos(log, "get_data") < Pos(log, "net_forward")

C1_Witness ==
    /\ pc = "old_net_forward"
    /\ get_calls = <<args.minibatch_size>>
    /\ Len(fr.inputs) = fr.real_batch_size + 2

\* C2: every observe call that returns calls add_data exactly once, with the
\* caller's not_aug_inputs and the caller's labels, whether or not the batch was
\* extended; replayed samples and augmented inputs are never written to the buffer.
C2_AddDataCurrentBatchOnly ==
    /\ Len(add_calls) <= 1
    /\ \A j \in 1..Len(buffer) : buffer[j].example.aug = 0
    /\ Returned =>
         /\ add_calls = <<[examples |-> call.not_aug_inputs, labels |-> call.labels]>>
         /\ Count(log, "add_data") = 1
         /\ \A j \in 1..Len(buffer) :
              \/ j <= Len(pre.buffer) /\ buffer[j] = pre.buffer[j]
              \/ \E i \in 1..Len(call.not_aug_inputs) :
                   buffer[j] = [example |-> call.not_aug_inputs[i], label |-> call.labels[i]]

C2_Witness ==
    /\ Returned
    /\ get_calls # <<>>
    /\ Len(pre.buffer) = args.buffer_size
    /\ buffer # pre.buffer

\* C3: the samples replayed in a call were stored by strictly earlier calls:
\* add_data comes after get_data, backward and the optimizer step of the same call,
\* no example of the current batch is replayed in the call that passes it in, and
\* the first observe call replays nothing.
C3_ReplayedStoredEarlier ==
    /\ \A i \in 1..Len(fr.buf) :
         /\ fr.buf[i].example.x[1] < callNo
         /\ \A k \in 1..Len(call.not_aug_inputs) : fr.buf[i].example # call.not_aug_inputs[k]
    /\ callNo <= 1 => get_calls = <<>> /\ fr.buf = <<>>
    /\ Count(log, "add_data") > 0 =>
         /\ Count(log, "opt_step") = 1 /\ Pos(log, "opt_step") < Pos(log, "add_data")
         /\ Count(log, "backward") = 1 /\ Pos(log, "backward") < Pos(log, "add_data")
         /\ Count(log, "get_data") > 0 => Pos(log, "get_data") < Pos(log, "add_data")
         /\ is_empty(pre.buffer) <=> Count(log, "get_data") = 0

C3_Witness ==
    /\ callNo = 3
    /\ pc = "return"
    /\ \E i \in 1..Len(fr.buf) : fr.buf[i].example.x[1] = 1
    /\ \E i \in 1..Len(fr.buf) : fr.buf[i].example.x[1] = 2

\* C4: with args.ema = 0 the teacher is a frozen copy: whatever observe calls have
\* run, old_net's parameters are those the student had at the most recent
\* begin_task, and _update_teacher is never invoked.
C4_TeacherFrozenWithoutEma ==
    (gamma = RZero /\ old_net # "None") =>
        /\ mem[old_net] = task_net
        /\ Count(log, "update_teacher") = 0

C4_Witness ==
    /\ gamma = RZero
    /\ Returned
    /\ callNo >= 2
    /\ mem[old_net] = task_net
    /\ mem[net] # task_net

\* C5: with gamma > 0 every observe call that returns updates the teacher exactly
\* once, after the optimizer step: each teacher parameter becomes
\* gamma * (its value before) + (1 - gamma) * (the student's parameter after the step),
\* position by position; for gamma in (0, 1] it lies between the two.
C5_EmaTeacherUpdate ==
    (RLt(RZero, gamma) /\ pc = "return") =>
        /\ Count(log, "update_teacher") = 1
        /\ Count(log, "opt_step") = 1
        /\ Pos(log, "opt_step") < Pos(log, "update_teacher")
        /\ Len(mem[old_net]) = Len(mem[net])
        /\ \A i \in 1..Len(mem[net]) :
             LET before == pre.mem[pre.old_net][i]
                 student == mem[net][i]
                 now == mem[old_net][i]
             IN  /\ now = RAdd(RMul(gamma, before), RMul(RSub(ROne, gamma), student))
                 /\ RLe(gamma, ROne) =>
                      \/ RLe(before, now) /\ RLe(now, student)
                      \/ RLe(student, now) /\ RLe(now, before)

C5_Witness ==
    /\ pc = "return"
    /\ gamma = Rat(1, 2)
    /\ callNo >= 2
    /\ \A i \in 1..Len(mem[net]) :
         /\ mem[old_net][i] # pre.mem[pre.old_net][i]
         /\ mem[old_net][i] # mem[net][i]

\* C6: observe returns task_loss(student outputs on the extended batch, extended
\* labels) + (alpha / 4) * KL(student outputs, teacher logits, softmax_temp), computed
\* with the parameters student and teacher had before this call's step and teacher
\* update; with alpha = 0 it is the task loss alone.
C6_ReturnedLoss ==
    (pc = "return" \/ Returned) =>
        LET outputs == Forward(pre.mem[net], fr.inputs)
            logits == Forward(pre.mem[pre.old_net], fr.temp)
            task == <<ROne, TaskLoss(outputs, fr.labels)>>
            penalty == <<Rat(args.alpha[1], 4 * args.alpha[2]),
                         kl_divergence_stable(outputs, logits, args.softmax_temp)>>
            value == IF pc = "return" THEN fr.loss ELSE ret.loss
        IN  /\ args.alpha = RZero => value = <<task>>
            /\ args.alpha # RZero => value = <<task, penalty>>

C6_Witness ==
    /\ Returned
    /\ args.alpha = Rat(1, 2)
    /\ RLt(RZero, gamma)
    /\ get_calls # <<>>
    /\ Len(ret.loss) = 2

\* C7: begin_task replaces the teacher by an independent snapshot of the student:
\* right after it every old_net parameter equals the student's and has
\* requires_grad False, whatever the teacher held before; begin_task leaves the
\* student's parameters and the buffer as they were; and no later step other than
\* the teacher update itself changes the teacher (no aliasing with the student).
C7_BeginTaskSnapshot ==
    [][ /\ taskNo' # taskNo =>
             /\ old_net' # "None"
             /\ old_net' # net
             /\ mem'[old_net'] = mem[net]
             /\ requires_grad'[old_net'] = FALSE
             /\ mem'[net] = mem[net]
             /\ buffer' = buffer
             /\ num_seen_examples' = num_seen_examples
        /\ (taskNo' = taskNo /\ old_net # "None" /\ pc # "update_teacher") =>
             /\ old_net' = old_net
             /\ mem'[old_net] = mem[old_net] ]_vars

C7_Witness ==
    /\ taskNo = 2
    /\ pc = "idle"
    /\ ret.kind = "loss"
    /\ gamma = Rat(1, 2)
    /\ buffer # <<>>
    /\ task_net = mem[net]
    /\ mem[old_net] = mem[net]

\* The collaborator calls of a whole observe call, in order.
ExpectedLog ==
    <<"zero_grad">>
    \o (IF is_empty(pre.buffer) THEN <<>> ELSE <<"get_data">>)
    \o <<"net_forward", "old_net_forward", "backward", "opt_step", "add_data">>
    \o (IF RLt(RZero, gamma) THEN <<"update_teacher">> ELSE <<>>)

\* C8: within a call the steps come in the order zero_grad, optional get_data,
\* student forward, teacher forward, backward, optimizer step, add_data, optional
\* teacher update; so the gradient a step applies is that of this call's loss alone,
\* and the distillation targets come from the teacher as it stood before this
\* call's EMA update.
C8_StepOrder ==
    /\ callNo > 0 => IsPrefix(log, ExpectedLog)
    /\ (pc = "return" \/ Returned) => log = ExpectedLog
    /\ pc = "opt_step" => grad = <<Autograd(fr.loss)>>
    /\ (PastOldNetForward \/ Returned) =>
          fr.logits = Forward(pre.mem[pre.old_net], fr.temp)

C8_Witness ==
    /\ pc = "return"
    /\ Len(log) = 8
    /\ mem[old_net] # pre.mem[pre.old_net]

\* C9: the batch fed to the student, the batch fed to the teacher and the labels
\* have the same length real_batch_size + k, k the number of samples get_data
\* returned (0 with an empty buffer); their first real_batch_size rows are the
\* caller's batch and their last k rows are the same k buffer samples in the same
\* order, the student getting one view of each sample and the teacher the other.
C9_AlignedBatches ==
    (PastReplay \/ Returned) =>
        LET n == fr.real_batch_size
            k == Len(fr.buf)
        IN  /\ n = Len(call.inputs)
            /\ is_empty(pre.buffer) => k = 0
            /\ Len(fr.inputs) = n + k
            /\ Len(fr.temp) = n + k
            /\ Len(fr.labels) = n + k
            /\ SubSeq(fr.inputs, 1, n) = call.inputs
            /\ SubSeq(fr.temp, 1, n) = call.not_aug_inputs
            /\ SubSeq(fr.labels, 1, n) = call.labels
            /\ \A j \in 1..k :
                 /\ fr.inputs[n + j].x = fr.buf[j].example.x
                 /\ fr.temp[n + j].x = fr.buf[j].example.x
                 /\ fr.labels[n + j] = fr.buf[j].label
                 /\ fr.inputs[n + j] # fr.temp[n + j]
                 /\ {fr.inputs[n + j], fr.temp[n + j]}
                      = {fr.buf[j].example, transform(fr.buf[j].example)}
            /\ (PastNetForward \/ Returned) => fr.outputs.rows = fr.inputs
            /\ (PastOldNetForward \/ Returned) => fr.logits.rows = fr.temp

C9_Witness ==
    /\ pc = "distill"
    /\ fr.real_batch_size = 2
    /\ Len(fr.buf) = 2
    /\ fr.buf[1].example.x[1] # fr.buf[2].example.x[1]

\* C10: observe called before any begin_task fails with an error instead of
\* returning a loss, before backward, the optimizer step, add_data and the teacher
\* update: the student's parameters and the buffer are as before the call.
C10_ObserveBeforeBeginTaskFails ==
    (callNo > 0 /\ pre.old_net = "None") =>
        /\ pc \in {"zero_grad", "get_data", "net_forward", "old_net_forward", "idle"}
        /\ ret.kind # "loss"
        /\ pc = "idle" => ret.kind = "AttributeError"
        /\ mem[net] = pre.mem[net]
        /\ buffer = pre.buffer
        /\ num_seen_examples = 0
        /\ add_calls = <<>>
        /\ \A i \in 1..Len(log) :
             log[i] \notin {"backward", "opt_step", "add_data", "update_teacher"}

C10_Witness ==
    /\ pc = "idle"
    /\ ret.kind = "AttributeError"
    /\ callNo = 2
    /\ taskNo = 0

====
